---- MODULE Spec2Model ----
(***************************************************************************)
(* AI-MEDIA-DETECTION front-end: the application controller (App), the     *)
(* file intake (UploadArea), the preview renderers and the HTTP client.    *)
(* The repository holds two builds of the controller and of the intake:    *)
(* the image-only one (frontend/src/App.js, components/UploadArea.jsx) and *)
(* the image+video one; `build` says which of them is running.             *)
(***************************************************************************)
EXTENDS Integers, Sequences, FiniteSets, TLC

\* ------------------------------------------------------------------ bounds
MaxPicks == 3          \* files the user offers to the intake
MaxRequests == 2       \* detection requests issued
MaxHealthChecks == 2   \* health checks issued (the one on mount included)
MaxUrls == 3           \* object URLs tracked in the browser's URL store

\* --------------------------------------------------------------- constants
MB == 1024 * 1024
ImageMaxSize == 16 * MB
VideoMaxSize == 50 * MB

\* JavaScript null / a present value
Null == <<>>
Some(x) == <<x>>

\* String.prototype.startsWith on a string given as its sequence of tokens
StartsWith(s, p) == Len(s) >= Len(p) /\ SubSeq(s, 1, Len(p)) = p

\* ------------------------------------------------------------------ inputs
FileTypes ==
  { <<"image", "/", "png">>, <<"video", "/", "mp4">>,
    <<"application", "/", "pdf">>, <<>> }
FileSizes == { 1024, ImageMaxSize, ImageMaxSize + 1, VideoMaxSize, VideoMaxSize + 1 }
Files == [type : FileTypes, size : FileSizes]

\* what the backend may answer to POST /detect and /detect_video
ServerMessages == { Null, Some(""), Some("corrupt file") }
Payloads == { [success |-> TRUE, error |-> Null] }
            \cup [success : {FALSE}, error : ServerMessages]
\* the error axios rejects with: `response` when the server answered with an
\* error status, `request` when the request was sent (no answer, or a timeout)
AxiosErrors ==
  [response : { Some([error |-> m]) : m \in ServerMessages }, request : {TRUE}]
  \cup [response : {Null}, request : BOOLEAN]
DetectOutcomes ==
  [kind : {"returned"}, data : Payloads] \cup [kind : {"thrown"}, err : AxiosErrors]

\* what the backend may answer to GET /health
HealthBodies == [status : {"ok", "starting"}, detector_ready : {Null, Some(FALSE), Some(TRUE)}]
HealthOutcomes == [kind : {"returned"}, data : HealthBodies] \cup { [kind |-> "thrown"] }

\* Detection Results the backend may send with success true
Verdicts == { "FAKE", "REAL", "PENDING" }
Confidences == { Null, Some([num |-> 873, den |-> 10]), Some([num |-> 50, den |-> 1]) }
IndividualResults ==
  { Null, Some(<< >>),
    Some(<< [model |-> "EfficientNet", prediction |-> "FAKE",
             confidence |-> [num |-> 911, den |-> 10]] >>) }
FrameCounts ==
  { c \in [total_frames_analyzed : {0, 3, 8, 16, 100}, fake_frames : {0, 1, 2, 5, 62},
           real_frames : {0, 1, 3, 15, 35}, uncertain_frames : {0, 1, 3}] :
      c.fake_frames + c.real_frames + c.uncertain_frames = c.total_frames_analyzed }
Analyses == { Null } \cup { Some(c) : c \in FrameCounts }
VideoInfos == { Null, Some([duration |-> "12.5", fps |-> "30", resolution |-> "1920x1080"]) }
ModelBreakdowns ==
  { Null, Some(<< >>),
    Some(<< [model |-> "EfficientNet", prediction |-> "FAKE",
             confidence |-> [num |-> 911, den |-> 10],
             fake_frame_count |-> 62, real_frame_count |-> 35] >>) }
SuspiciousFrames == { Null, Some(<< 4, 9 >>) }
ConfidenceTimelines == { Null, Some(<< [num |-> 755, den |-> 10], [num |-> 40, den |-> 1] >>) }
DetectionResults ==
  [success : {TRUE}, error : {Null}, verdict : Verdicts, confidence : Confidences,
   individual_results : IndividualResults, analysis : Analyses,
   video_info : VideoInfos, model_breakdown : ModelBreakdowns,
   suspicious_frames : SuspiciousFrames, confidence_timeline : ConfidenceTimelines]

VARIABLES
  build,         \* "image-only" or "media"
  selectedFile, imageUrl, loading, result, error, apiStatus,   \* App state
  origin,        \* the request (file id, endpoint) that wrote result/error
  requests,      \* detection requests in flight
  issued,        \* detection requests issued so far
  healthChecks,  \* ids of the health checks in flight
  healthIssued,  \* health checks issued so far
  lastHealth,    \* outcome of the health check that completed last
  newestHealth,  \* outcome of the health check issued last, once it completed
  objectUrls,    \* the browser's object-URL store, one entry per createObjectURL
  picks, picked, \* files offered to the intake so far, and the last of them
  alerts,        \* messages shown by alert(), in order
  view           \* what the result renderer produced for `result`, if it ran

vars == << build, selectedFile, imageUrl, loading, result, error, apiStatus,
           origin, requests, issued, healthChecks, healthIssued, lastHealth,
           newestHealth,
           objectUrls, picks, picked, alerts, view >>

appVars == << selectedFile, imageUrl, loading, result, error, origin >>
netVars == << requests, issued >>
healthVars == << healthChecks, healthIssued, lastHealth, newestHealth, apiStatus >>
intakeVars == << picks, picked, alerts >>

\* ------------------------------------------------------------- HTTP client
\* JavaScript's  x || fallback  on an optional string
OrElse(x, fallback) == IF x \notin {Null, Some("")} THEN x[1] ELSE fallback

detectImageError(err) ==
  IF err.response # Null
    THEN OrElse(err.response[1].error, "Detection failed")
  ELSE IF err.request
    THEN "Cannot connect to server"
  ELSE "An error occurred while processing the request"

\* detectVideoError testing error.request before error.response
detectVideoErrorRequestFirst(err) ==
  IF err.request
    THEN "Cannot connect to server"
  ELSE IF err.response # Null
    THEN OrElse(err.response[1].error, "Video detection failed")
  ELSE "An error occurred while processing the video"

detectVideoError(err) ==
  IF err.response # Null
    THEN OrElse(err.response[1].error, "Video detection failed")
  ELSE IF err.request
    THEN "Cannot connect to server"
  ELSE "An error occurred while processing the video"

\* the client's answer: the payload, or the Error it throws
detectImage(o) ==
  IF o.kind = "returned" THEN [returned |-> TRUE, data |-> o.data]
  ELSE [returned |-> FALSE, message |-> detectImageError(o.err)]

detectVideo(o) ==
  IF o.kind = "returned" THEN [returned |-> TRUE, data |-> o.data]
  ELSE [returned |-> FALSE, message |-> detectVideoError(o.err)]

\* ------------------------------------------------------------- file intake
\* handleFile without the declared-type validation
handleFileNoTypeCheck(file) ==
  LET isVideo == StartsWith(file.type, <<"video", "/">>)
      maxSize == IF isVideo THEN VideoMaxSize ELSE ImageMaxSize
      maxSizeText == IF isVideo THEN "50MB" ELSE "16MB"
  IN  IF file.size > maxSize THEN Some("File too large. Maximum size is " \o maxSizeText)
      ELSE Null

\* handleFile holding videos to the image ceiling
handleFileOneCeiling(file) ==
  LET isImage == StartsWith(file.type, <<"image", "/">>)
      isVideo == StartsWith(file.type, <<"video", "/">>)
      maxSizeText == IF isVideo THEN "50MB" ELSE "16MB"
  IN  IF ~isImage /\ ~isVideo THEN Some("Please select an image or video file")
      ELSE IF file.size > ImageMaxSize THEN Some("File too large. Maximum size is " \o maxSizeText)
      ELSE Null

\* Null when the file is forwarded to onFileSelect, else the alert's text
handleFile(file) ==
  LET isImage == StartsWith(file.type, <<"image", "/">>)
      isVideo == StartsWith(file.type, <<"video", "/">>)
      maxSize == IF isVideo THEN VideoMaxSize ELSE ImageMaxSize
      maxSizeText == IF isVideo THEN "50MB" ELSE "16MB"
  IN  IF ~isImage /\ ~isVideo THEN Some("Please select an image or video file")
      ELSE IF file.size > maxSize THEN Some("File too large. Maximum size is " \o maxSizeText)
      ELSE Null

handleFileImageOnly(file) ==
  IF ~StartsWith(file.type, <<"image", "/">>) THEN Some("Please select an image file")
  ELSE IF file.size > ImageMaxSize THEN Some("File too large. Maximum size is 16MB")
  ELSE Null

\* -------------------------------------------------------------- controller
isVideo ==
  /\ build = "media"
  /\ selectedFile # Null
  /\ StartsWith(selectedFile[1].type, <<"video", "/">>)

\* VideoPreview: every render of the component calls URL.createObjectURL and
\* nothing revokes the URL; it renders whenever App renders with a video
\* selected.  The store tracks MaxUrls entries, later ones are not recorded.
VideoPreview(store, sf) ==
  IF /\ build = "media"
     /\ sf # Null
     /\ StartsWith(sf[1].type, <<"video", "/">>)
     /\ Len(store) < MaxUrls
  THEN Append(store, [by |-> "VideoPreview", file |-> sf[1].id, revoked |-> 0])
  ELSE store

revokeObjectURL(store, h) ==
  [store EXCEPT ![h] = [@ EXCEPT !.revoked = @ + 1]]

\* checkApiHealth looking at health.status alone
checkHealthStatusIgnoringDetector(o) ==
  IF o.kind = "thrown" THEN "offline"
  ELSE IF o.data.status = "ok" THEN "ready"
  ELSE "not-ready"

checkHealthStatus(o) ==
  IF o.kind = "thrown" THEN "offline"
  ELSE IF o.data.status = "ok" /\ o.data.detector_ready = Some(TRUE) THEN "ready"
  ELSE "not-ready"

handleFileSelect(file) ==
  /\ Len(objectUrls) < MaxUrls
  /\ selectedFile' = Some(file)
  /\ imageUrl' = Some(Len(objectUrls) + 1)
  /\ result' = Null
  /\ error' = Null
  /\ origin' = Null
  /\ objectUrls' = VideoPreview(
        Append(objectUrls, [by |-> "App", file |-> file.id, revoked |-> 0]),
        Some(file))
  /\ UNCHANGED loading

\* handleRemove without setImageUrl(null)
handleRemoveKeepingUrl ==
  /\ selectedFile' = Null
  /\ result' = Null
  /\ error' = Null
  /\ origin' = Null
  /\ objectUrls' = IF imageUrl # Null THEN revokeObjectURL(objectUrls, imageUrl[1])
                   ELSE objectUrls
  /\ UNCHANGED << loading, imageUrl >>

handleRemove ==
  /\ selectedFile' = Null
  /\ imageUrl' = Null
  /\ result' = Null
  /\ error' = Null
  /\ origin' = Null
  /\ objectUrls' = IF imageUrl # Null THEN revokeObjectURL(objectUrls, imageUrl[1])
                   ELSE objectUrls
  /\ UNCHANGED loading

\* the Analyze button disabled by loading alone
AnalyzeEnabledIgnoringApiStatus ==
  /\ selectedFile # Null
  /\ result = Null
  /\ ~loading

\* the Analyze button disabled by apiStatus alone
AnalyzeEnabledWhileLoading ==
  /\ selectedFile # Null
  /\ result = Null
  /\ apiStatus = "ready"

\* the Analyze button is rendered and not disabled
AnalyzeEnabled ==
  /\ selectedFile # Null
  /\ result = Null
  /\ ~(loading \/ apiStatus # "ready")

\* handleAnalyze up to its await
handleAnalyze(o) ==
  /\ selectedFile # Null
  /\ issued < MaxRequests
  /\ loading' = TRUE
  /\ error' = Null
  /\ result' = Null
  /\ origin' = Null
  /\ issued' = issued + 1
  /\ requests' = requests \cup
       { [id |-> issued + 1,
          endpoint |-> IF isVideo THEN "detect_video" ELSE "detect",
          file |-> selectedFile[1].id,
          outcome |-> o] }
  /\ objectUrls' = VideoPreview(objectUrls, selectedFile)
  /\ UNCHANGED << selectedFile, imageUrl >>

\* handleAnalyze showing the fallback for every payload with success false
settleGenericError(response) ==
  IF response.returned
    THEN IF response.data.success
           THEN [result |-> Some(response.data), error |-> error]
           ELSE [result |-> result, error |-> Some("Detection failed")]
    ELSE [result |-> result, error |-> Some(response.message)]

\* handleAnalyze after its await: what it stores for the client's answer
settle(response) ==
  IF response.returned
    THEN IF response.data.success
           THEN [result |-> Some(response.data), error |-> error]
           ELSE [result |-> result,
                 error |-> Some(OrElse(response.data.error, "Detection failed"))]
    ELSE [result |-> result, error |-> Some(response.message)]

\* handleAnalyze sending the request again when the first attempt threw
handleAnalyzeResumeRetrying(r) ==
  IF r.outcome.kind = "thrown" /\ issued < MaxRequests
    THEN /\ issued' = issued + 1
         /\ requests' = (requests \ {r}) \cup
              { [r EXCEPT !.id = issued + 1,
                          !.outcome = [kind |-> "returned",
                                       data |-> [success |-> TRUE, error |-> Null]]] }
         /\ UNCHANGED << selectedFile, imageUrl, loading, result, error, origin, objectUrls >>
    ELSE LET response == IF r.endpoint = "detect_video" THEN detectVideo(r.outcome)
                         ELSE detectImage(r.outcome)
             s == settle(response)
         IN  /\ result' = s.result
             /\ error' = s.error
             /\ loading' = FALSE
             /\ origin' = Some([file |-> r.file, endpoint |-> r.endpoint])
             /\ requests' = requests \ {r}
             /\ objectUrls' = VideoPreview(objectUrls, selectedFile)
             /\ UNCHANGED << selectedFile, imageUrl, issued >>

\* handleAnalyze with setLoading(false) after the try block instead of in
\* finally: a rejected request leaves loading set
handleAnalyzeResumeKeepsLoading(r) ==
  LET response == IF r.endpoint = "detect_video" THEN detectVideo(r.outcome)
                  ELSE detectImage(r.outcome)
      s == settle(response)
  IN  /\ result' = s.result
      /\ error' = s.error
      /\ loading' = IF response.returned THEN FALSE ELSE loading
      /\ origin' = Some([file |-> r.file, endpoint |-> r.endpoint])
      /\ requests' = requests \ {r}
      /\ objectUrls' = VideoPreview(objectUrls, selectedFile)
      /\ UNCHANGED << selectedFile, imageUrl, issued >>

handleAnalyzeResume(r) ==
  LET response == IF r.endpoint = "detect_video" THEN detectVideo(r.outcome)
                  ELSE detectImage(r.outcome)
      s == settle(response)
  IN  /\ result' = s.result
      /\ error' = s.error
      /\ loading' = FALSE
      /\ origin' = Some([file |-> r.file, endpoint |-> r.endpoint])
      /\ requests' = requests \ {r}
      /\ objectUrls' = VideoPreview(objectUrls, selectedFile)
      /\ UNCHANGED << selectedFile, imageUrl, issued >>

\* -------------------------------------------------------- result renderers
\* a JavaScript number, kept exactly as the fraction num/den
Num(n, d) == [num |-> n, den |-> d]

Digits == << "0", "1", "2", "3", "4", "5", "6", "7", "8", "9" >>
RECURSIVE IntStr(_)
\* String(n) for a natural number
IntStr(n) == IF n < 10 THEN Digits[n + 1] ELSE IntStr(n \div 10) \o Digits[(n % 10) + 1]

\* Number.prototype.toFixed cutting the digits off instead of rounding
toFixedTruncating(x, digits) ==
  LET p == IF digits = 1 THEN 10 ELSE 100
      t == (x.num * p) \div x.den
      frac == t % p
  IN  IntStr(t \div p) \o "." \o
        (IF digits = 2 /\ frac < 10 THEN "0" ELSE "") \o IntStr(frac)

\* Number.prototype.toFixed for one or two digits: the nearest decimal, the
\* larger one on a tie
toFixed(x, digits) ==
  LET p == IF digits = 1 THEN 10 ELSE 100
      t == (2 * x.num * p + x.den) \div (2 * x.den)
      frac == t % p
  IN  IntStr(t \div p) \o "." \o
        (IF digits = 2 /\ frac < 10 THEN "0" ELSE "") \o IntStr(frac)

\* danger / success / warning / secondary
getVerdictVariant(verdict) ==
  CASE verdict = "FAKE" -> "danger"
    [] verdict = "REAL" -> "success"
    [] verdict = "UNCERTAIN" -> "warning"
    [] OTHER -> "secondary"

\* VideoResults' colour of the verdict banner
getVerdictColor(verdict) ==
  CASE verdict = "FAKE" -> "danger"
    [] verdict = "REAL" -> "success"
    [] verdict = "UNCERTAIN" -> "warning"
    [] OTHER -> "secondary"

\* the coloured circle shown before the verdict, by its colour
getVerdictIcon(verdict) ==
  CASE verdict = "FAKE" -> "red"
    [] verdict = "REAL" -> "green"
    [] verdict = "UNCERTAIN" -> "yellow"
    [] OTHER -> "white"

\* a render that ended in a TypeError
Threw == [threw |-> TRUE]

\* Results showing the confidence with one decimal
ResultsOneDecimal(res) ==
  IF res.confidence = Null \/ res.individual_results = Null THEN Threw
  ELSE [threw |-> FALSE,
        component |-> "Results",
        marker |-> getVerdictIcon(res.verdict),
        verdict |-> res.verdict,
        confidence |-> "Confidence: " \o toFixed(res.confidence[1], 1) \o "%",
        panels |-> {"verdict", "proportion", "models", "recommendation"},
        models |-> [i \in DOMAIN res.individual_results[1] |->
                     LET model == res.individual_results[1][i] IN
                       [model |-> model.model,
                        badge |-> getVerdictVariant(model.prediction),
                        confidence |-> toFixed(model.confidence, 1) \o "%"]]]

\* Results: the image variant of the result renderer
Results(res) ==
  IF res.confidence = Null \/ res.individual_results = Null THEN Threw
  ELSE [threw |-> FALSE,
        component |-> "Results",
        marker |-> getVerdictIcon(res.verdict),
        verdict |-> res.verdict,
        confidence |-> "Confidence: " \o toFixed(res.confidence[1], 2) \o "%",
        panels |-> {"verdict", "proportion", "models", "recommendation"},
        models |-> [i \in DOMAIN res.individual_results[1] |->
                     LET model == res.individual_results[1][i] IN
                       [model |-> model.model,
                        badge |-> getVerdictVariant(model.prediction),
                        confidence |-> toFixed(model.confidence, 1) \o "%"]]]

\* result.analysis?.field || 0
FrameCount(analysis, field) == IF analysis = Null THEN 0 ELSE analysis[1][field]

\* x && x.length > 0
NonEmpty(x) == x # Null /\ Len(x[1]) > 0

\* VideoResults: the video variant of the result renderer
VideoResults(res) ==
  LET totalFrames == FrameCount(res.analysis, "total_frames_analyzed")
      fakeFrames == FrameCount(res.analysis, "fake_frames")
      realFrames == FrameCount(res.analysis, "real_frames")
      uncertainFrames == FrameCount(res.analysis, "uncertain_frames")
      fakePercent == IF totalFrames > 0 THEN toFixed(Num(fakeFrames * 100, totalFrames), 1)
                     ELSE "0"
      realPercent == IF totalFrames > 0 THEN toFixed(Num(realFrames * 100, totalFrames), 1)
                     ELSE "0"
  IN  [threw |-> FALSE,
       component |-> "VideoResults",
       marker |-> getVerdictColor(res.verdict),
       verdict |-> res.verdict,
       totalFrames |-> totalFrames,
       fakeFrames |-> fakeFrames,
       realFrames |-> realFrames,
       fakePercent |-> fakePercent \o "%",
       realPercent |-> realPercent \o "%",
       duration |-> IF res.video_info = Null THEN "N/A" ELSE res.video_info[1].duration,
       panels |-> {"verdict", "analysis"}
                  \cup (IF uncertainFrames > 0 THEN {"uncertain_frames"} ELSE {})
                  \cup (IF NonEmpty(res.model_breakdown) THEN {"model_breakdown"} ELSE {})
                  \cup (IF NonEmpty(res.suspicious_frames) THEN {"suspicious_frames"} ELSE {})
                  \cup (IF NonEmpty(res.confidence_timeline) THEN {"confidence_timeline"} ELSE {}),
       timeline |-> IF NonEmpty(res.confidence_timeline)
                      THEN [i \in DOMAIN res.confidence_timeline[1] |->
                             LET confidence == res.confidence_timeline[1][i] IN
                               [title |-> "Frame " \o IntStr(i - 1) \o ": "
                                            \o toFixed(confidence, 1) \o "%",
                                level |-> IF confidence.num > 70 * confidence.den THEN "high"
                                          ELSE IF confidence.num > 50 * confidence.den THEN "medium"
                                          ELSE "low"]]
                      ELSE << >>]

\* ----------------------------------------------------------------- actions
Init ==
  /\ build \in {"image-only", "media"}
  /\ selectedFile = Null
  /\ imageUrl = Null
  /\ loading = FALSE
  /\ result = Null
  /\ error = Null
  /\ apiStatus = "checking"
  /\ origin = Null
  /\ requests = {}
  /\ issued = 0
  /\ healthChecks = {1}
  /\ healthIssued = 1
  /\ lastHealth = Null
  /\ newestHealth = Null
  /\ objectUrls = <<>>
  /\ picks = 0
  /\ picked = Null
  /\ alerts = <<>>
  /\ view = Null

\* the user drops or chooses a file in the UploadArea
ChooseFile ==
  /\ selectedFile = Null
  /\ picks < MaxPicks
  /\ \E f \in Files :
       LET file == [id |-> picks + 1, type |-> f.type, size |-> f.size]
           alert == IF build = "media" THEN handleFile(file)
                    ELSE handleFileImageOnly(file)
       IN  /\ picks' = picks + 1
           /\ picked' = Some(file)
           /\ IF alert = Null
                THEN handleFileSelect(file) /\ UNCHANGED alerts
                ELSE /\ alerts' = Append(alerts, alert[1])
                     /\ UNCHANGED << appVars, objectUrls >>
  /\ UNCHANGED << build, view, netVars, healthVars >>

\* the Remove button of ImagePreview
Remove ==
  /\ selectedFile # Null
  /\ ~isVideo
  /\ handleRemove
  /\ UNCHANGED << build, view, netVars, healthVars, intakeVars >>

\* the "Analyze Another" button under the results
AnalyzeAnother ==
  /\ result # Null
  /\ handleRemove
  /\ UNCHANGED << build, view, netVars, healthVars, intakeVars >>

Analyze ==
  /\ AnalyzeEnabled
  /\ \E o \in DetectOutcomes : handleAnalyze(o)
  /\ UNCHANGED << build, view, healthVars, intakeVars >>

Respond ==
  /\ \E r \in requests : handleAnalyzeResume(r)
  /\ UNCHANGED << build, view, healthVars, intakeVars >>

\* the Retry button of the API status alert
Retry ==
  /\ build = "media"
  /\ apiStatus # "ready"
  /\ healthIssued < MaxHealthChecks
  /\ healthIssued' = healthIssued + 1
  /\ healthChecks' = healthChecks \cup {healthIssued + 1}
  /\ newestHealth' = Null
  /\ UNCHANGED << build, view, appVars, netVars, lastHealth, apiStatus, objectUrls, intakeVars >>

\* checkApiHealth after its await
HealthRespond ==
  /\ \E h \in healthChecks, o \in HealthOutcomes :
       /\ healthChecks' = healthChecks \ {h}
       /\ lastHealth' = Some(o)
       /\ newestHealth' = IF h = healthIssued THEN Some(o) ELSE newestHealth
       /\ apiStatus' = checkHealthStatus(o)
       /\ objectUrls' = IF apiStatus' # apiStatus THEN VideoPreview(objectUrls, selectedFile)
                        ELSE objectUrls
  /\ UNCHANGED << build, view, appVars, netVars, healthIssued, intakeVars >>

Next ==
  \/ ChooseFile
  \/ Remove
  \/ AnalyzeAnother
  \/ Analyze
  \/ Respond
  \/ Retry
  \/ HealthRespond

Spec == Init /\ [][Next]_vars

\* every request is answered, fails in transport or times out
SpecLive == Spec /\ WF_vars(Respond)

\* ------------------------------------------------- rendering a result
\* The controller holding a Detection Result for its selected file: the
\* state handleAnalyze leaves when the backend answered with success true.
InitRender ==
  /\ build \in {"image-only", "media"}
  /\ \E type \in { t \in FileTypes : handleFile([type |-> t, size |-> 1024]) = Null } :
       /\ build = "image-only" => handleFileImageOnly([type |-> type, size |-> 1024]) = Null
       /\ selectedFile = Some([id |-> 1, type |-> type, size |-> 1024])
       /\ origin = Some([file |-> 1,
                         endpoint |-> IF build = "media" /\ StartsWith(type, <<"video", "/">>)
                                        THEN "detect_video" ELSE "detect"])
  /\ picked = selectedFile
  /\ picks = 1
  /\ alerts = << >>
  /\ imageUrl = Some(1)
  /\ objectUrls = VideoPreview(<< [by |-> "App", file |-> 1, revoked |-> 0] >>, selectedFile)
  /\ loading = FALSE
  /\ result \in { Some(r) : r \in DetectionResults }
  /\ error = Null
  /\ apiStatus = "ready"
  /\ healthChecks = {}
  /\ healthIssued = 1
  /\ lastHealth = Some([kind |-> "returned",
                        data |-> [status |-> "ok", detector_ready |-> Some(TRUE)]])
  /\ newestHealth = lastHealth
  /\ requests = {}
  /\ issued = 1
  /\ view = Null

\* App renders the result with the renderer of the selected file's category
RenderResult ==
  /\ result # Null
  /\ view = Null
  /\ view' = Some(IF isVideo THEN VideoResults(result[1]) ELSE Results(result[1]))
  /\ UNCHANGED << build, appVars, netVars, healthVars, intakeVars, objectUrls >>

NextRender == RenderResult

SpecRender == InitRender /\ [][NextRender]_vars

\* ------------------------------------------------------------ vocabulary
Completes(r) == r \in requests /\ r \notin requests'
Intake == picks' = picks + 1
IsImageFile(f) == StartsWith(f.type, <<"image", "/">>)
IsVideoFile(f) == StartsWith(f.type, <<"video", "/">>)
FileGone(h) == selectedFile = Null \/ selectedFile[1].id # h.file

\* C1: a detection request is issued only from a state in which a file is
\* selected and apiStatus is "ready", and it is issued for that file at the
\* endpoint of its category; with no file, or while apiStatus is checking,
\* not-ready or offline, no step issues one.
C1_RequestOnlyWhenReady ==
  [][issued' # issued =>
       /\ selectedFile # Null
       /\ apiStatus = "ready"
       /\ \E r \in requests' \ requests :
            /\ r.file = selectedFile[1].id
            /\ r.endpoint \in {"detect", "detect_video"}
            /\ (r.endpoint = "detect_video") <=> IsVideoFile(selectedFile[1])]_vars

C1_Witness ==
  /\ requests # {}
  /\ selectedFile # Null
  /\ apiStatus = "ready"
  /\ \E r \in requests : r.endpoint = "detect_video"

\* C2: at most one detection request is outstanding in every reachable
\* state, and while one is outstanding the loading flag keeps the analyze
\* action disabled, whatever was selected or removed in the meantime.
C2_OneRequestInFlight ==
  /\ Cardinality(requests) <= 1
  /\ (requests # {} => loading)
  /\ (loading => requests # {})

C2_Witness ==
  /\ issued = 2
  /\ \E r \in requests : selectedFile # Null /\ selectedFile[1].id # r.file

\* C3: when a request completes, exactly one of result and error is set: a
\* thrown failure stores the thrown message as error and no result; a
\* payload with success false stores its embedded error string (the fallback
\* "Detection failed" only when the payload carries none) and no result; a
\* payload with success true is stored as result with no error; the same for
\* /detect and /detect_video.
C3_Outcome ==
  [][\A r \in requests : Completes(r) =>
       /\ ~loading'
       /\ (result' = Null) # (error' = Null)
       /\ IF r.outcome.kind = "thrown"
            THEN /\ result' = Null
                 /\ error' = Some(IF r.endpoint = "detect_video"
                                    THEN detectVideoError(r.outcome.err)
                                    ELSE detectImageError(r.outcome.err))
          ELSE IF ~r.outcome.data.success
            THEN /\ result' = Null
                 /\ r.outcome.data.error = Some("corrupt file") => error' = Some("corrupt file")
                 /\ r.outcome.data.error \in {Null, Some("")} => error' = Some("Detection failed")
          ELSE /\ result' = Some(r.outcome.data)
               /\ error' = Null]_vars

C3_Witness ==
  /\ error = Some("corrupt file")
  /\ result = Null
  /\ requests = {}
  /\ origin # Null
  /\ origin[1].endpoint = "detect_video"

\* C4: apiStatus is "checking" until the first health check completes; a
\* completing check sets it to "ready" exactly when the response has status
\* "ok" and detector_ready true, to "not-ready" for any other response, and
\* to "offline" when the check threw.
C4_HealthStatus ==
  /\ [](lastHealth = Null => apiStatus = "checking")
  /\ [][\A h \in healthChecks : h \notin healthChecks' =>
          LET o == lastHealth'[1] IN
            /\ (apiStatus' = "ready") <=>
                 (o.kind = "returned" /\ o.data.status = "ok"
                    /\ o.data.detector_ready = Some(TRUE))
            /\ (apiStatus' = "offline") <=> (o.kind = "thrown")
            /\ apiStatus' \in {"ready", "not-ready", "offline"}]_vars

C4_Witness ==
  /\ lastHealth # Null
  /\ lastHealth[1].kind = "returned"
  /\ lastHealth[1].data.status = "ok"
  /\ lastHealth[1].data.detector_ready = Some(FALSE)
  /\ apiStatus = "not-ready"

\* C5: a step that removes the selected file leaves selectedFile, imageUrl,
\* result and error all empty and has revoked the preview URL the controller
\* held; the controller never holds a revoked URL.
C5_RemoveClears ==
  /\ [](imageUrl # Null => objectUrls[imageUrl[1]].revoked = 0)
  /\ [][selectedFile # Null /\ selectedFile' = Null =>
          /\ imageUrl' = Null
          /\ result' = Null
          /\ error' = Null
          /\ imageUrl # Null
          /\ objectUrls'[imageUrl[1]].revoked = 1]_vars

C5_Witness ==
  /\ selectedFile = Null
  /\ imageUrl = Null
  /\ loading
  /\ \E h \in DOMAIN objectUrls : objectUrls[h].revoked = 1

\* C6: every object URL in the browser's store is revoked at most once, and
\* is revoked once the file it was created for is no longer selected.
C6_ReleasedExactlyOnce ==
  \A h \in DOMAIN objectUrls :
    /\ objectUrls[h].revoked <= 1
    /\ FileGone(objectUrls[h]) => objectUrls[h].revoked = 1

\* C7: while a detection request is outstanding the selected file does not
\* change: no step removes it and no step selects another.
C7_NoChangeWhileInFlight ==
  [][requests # {} => selectedFile' = selectedFile]_vars

\* C8 as amended: a failed detectImage or detectVideo raises the server's
\* message when a response carrying a non-empty one was received; else the
\* endpoint's own fallback when a response was received ("Detection failed"
\* for images, "Video detection failed" for videos); else "Cannot connect to
\* server" when the request was sent and no response came; else the
\* endpoint's own generic message.  The two endpoints agree on the server's
\* message and on "Cannot connect to server" and differ in both fallbacks.
C8_ErrorTranslation ==
  [][\A r \in requests : Completes(r) /\ r.outcome.kind = "thrown" =>
       LET e == r.outcome.err
           video == r.endpoint = "detect_video"
       IN  IF e.response # Null /\ e.response[1].error = Some("corrupt file")
             THEN error' = Some("corrupt file")
           ELSE IF e.response # Null
             THEN error' = Some(IF video THEN "Video detection failed"
                                ELSE "Detection failed")
           ELSE IF e.request
             THEN error' = Some("Cannot connect to server")
           ELSE error' = Some(IF video THEN "An error occurred while processing the video"
                              ELSE "An error occurred while processing the request")]_vars

C8_Witness ==
  /\ error = Some("Video detection failed")
  /\ requests = {}
  /\ origin # Null
  /\ origin[1].endpoint = "detect_video"

\* C8 as stated: the error a failed detectVideo raises is the one detectImage
\* raises for the same failure.
C8_SameErrorOnBothEndpoints ==
  [][\A r \in requests : Completes(r) /\ r.outcome.kind = "thrown" =>
       error' = Some(detectImageError(r.outcome.err))]_vars

\* C9 as amended: a file whose declared type is neither image/ nor video/ is
\* rejected with an alert and onFileSelect is not called; an image within
\* 16MB is forwarded unchanged; a video within 50MB is forwarded unchanged by
\* the image+video intake, while the image-only intake rejects every video
\* with "Please select an image file".
C9_IntakeByType ==
  [][Intake =>
       LET f == picked'[1] IN
         IF ~IsImageFile(f) /\ ~IsVideoFile(f)
           THEN /\ Len(alerts') = Len(alerts) + 1
                /\ selectedFile' = Null
                /\ UNCHANGED << imageUrl, objectUrls >>
         ELSE IF IsImageFile(f) /\ f.size <= ImageMaxSize
           THEN selectedFile' = Some(f) /\ alerts' = alerts
         ELSE IF IsVideoFile(f) /\ f.size <= VideoMaxSize /\ build = "media"
           THEN selectedFile' = Some(f) /\ alerts' = alerts
         ELSE IF IsVideoFile(f) /\ build = "image-only"
           THEN /\ alerts' = Append(alerts, "Please select an image file")
                /\ selectedFile' = Null
         ELSE TRUE]_vars

C9_Witness ==
  /\ build = "media"
  /\ picks = 2
  /\ Len(alerts) = 1
  /\ selectedFile # Null
  /\ IsVideoFile(selectedFile[1])
  /\ selectedFile[1].size = VideoMaxSize

\* C9 as stated: a file of neither category is rejected with an alert and
\* never forwarded; a file of either category within its limit is forwarded.
C9_EitherCategoryForwarded ==
  [][Intake =>
       LET f == picked'[1] IN
         IF ~IsImageFile(f) /\ ~IsVideoFile(f)
           THEN Len(alerts') = Len(alerts) + 1 /\ selectedFile' = Null
         ELSE IF f.size <= (IF IsVideoFile(f) THEN VideoMaxSize ELSE ImageMaxSize)
           THEN selectedFile' = Some(f)
         ELSE TRUE]_vars

\* C10 as amended: an image is rejected exactly when its size exceeds 16MB,
\* with the alert naming 16MB; in the image+video intake a video is rejected
\* exactly when its size exceeds 50MB, with the alert naming 50MB; the
\* image-only intake rejects a video of any size; a rejected file is never
\* selected.
C10_SizeCeilings ==
  [][Intake =>
       LET f == picked'[1]
           rejected == selectedFile' = Null
       IN  /\ rejected <=> Len(alerts') = Len(alerts) + 1
           /\ ~rejected => selectedFile' = Some(f) /\ alerts' = alerts
           /\ IsImageFile(f) =>
                /\ rejected <=> f.size > ImageMaxSize
                /\ rejected => alerts' = Append(alerts, "File too large. Maximum size is 16MB")
           /\ IsVideoFile(f) /\ build = "media" =>
                /\ rejected <=> f.size > VideoMaxSize
                /\ rejected => alerts' = Append(alerts, "File too large. Maximum size is 50MB")
           /\ IsVideoFile(f) /\ build = "image-only" => rejected]_vars

C10_Witness ==
  /\ build = "media"
  /\ selectedFile = Null
  /\ picked # Null
  /\ IsVideoFile(picked[1])
  /\ picked[1].size = VideoMaxSize + 1
  /\ Len(alerts) = 1
  /\ alerts[1] = "File too large. Maximum size is 50MB"

\* C10 as stated: a video is rejected exactly when its size exceeds 50MB and
\* an image exactly when its size exceeds 16MB, each alert naming its ceiling.
C10_VideoCeilingOnly ==
  [][Intake =>
       LET f == picked'[1]
           rejected == selectedFile' = Null
       IN  /\ IsVideoFile(f) =>
                /\ rejected <=> f.size > VideoMaxSize
                /\ rejected => alerts' = Append(alerts, "File too large. Maximum size is 50MB")
           /\ IsImageFile(f) =>
                /\ rejected <=> f.size > ImageMaxSize
                /\ rejected => alerts' = Append(alerts, "File too large. Maximum size is 16MB")]_vars

\* C11: a request is sent only by the analyze action, one per action, from a
\* state with none outstanding; the step that completes a request sends
\* none, and when the attempt failed it stores the error and ends loading.
C11_NoRetry ==
  [][/\ issued' # issued =>
          /\ issued' = issued + 1
          /\ requests = {}
          /\ ~loading
          /\ Cardinality(requests') = 1
     /\ \A r \in requests : Completes(r) =>
          /\ issued' = issued
          /\ requests' = requests \ {r}
          /\ (r.outcome.kind = "thrown" \/ ~r.outcome.data.success) =>
               error' # Null /\ ~loading']_vars

C11_Witness ==
  /\ issued = 1
  /\ requests = {}
  /\ ~loading
  /\ error = Some("Cannot connect to server")

\* C12: whichever sub-objects a Detection Result lacks, the renderer chosen
\* for the selected file completes without error and leaves out the panel of
\* each absent sub-object.
C12_AbsentSubObjects ==
  (view # Null /\ result[1].confidence # Null) =>
     LET res == result[1]
         v == view[1]
     IN  /\ ~v.threw
         /\ res.individual_results = Null => "models" \notin v.panels
         /\ res.model_breakdown = Null => "model_breakdown" \notin v.panels
         /\ res.suspicious_frames = Null => "suspicious_frames" \notin v.panels
         /\ res.confidence_timeline = Null => "confidence_timeline" \notin v.panels

\* C13 as amended: for a result with verdict FAKE and confidence 87.3 whose
\* individual_results is a sequence, empty or not, the image renderer
\* completes and shows the FAKE marker, the verdict and the confidence with
\* two decimals, "87.30%".
C13_FakeBanner ==
  (/\ view # Null
   /\ ~isVideo
   /\ result[1].verdict = "FAKE"
   /\ result[1].confidence = Some(Num(873, 10))
   /\ result[1].individual_results # Null) =>
     /\ ~view[1].threw
     /\ view[1].component = "Results"
     /\ view[1].marker = "red"
     /\ view[1].verdict = "FAKE"
     /\ view[1].confidence = "Confidence: 87.30%"
     /\ Len(view[1].models) = Len(result[1].individual_results[1])

C13_Witness ==
  /\ view # Null
  /\ ~isVideo
  /\ result[1].verdict = "FAKE"
  /\ result[1].confidence = Some(Num(873, 10))
  /\ result[1].individual_results = Some(<< >>)
  /\ ~view[1].threw
  /\ view[1].marker = "red"

\* C13 as stated: the confidence is displayed as "87.3%".
C13_OneDecimalConfidence ==
  (/\ view # Null
   /\ ~isVideo
   /\ result[1].verdict = "FAKE"
   /\ result[1].confidence = Some(Num(873, 10))
   /\ result[1].individual_results # Null) =>
     /\ ~view[1].threw
     /\ view[1].marker = "red"
     /\ view[1].confidence = "Confidence: 87.3%"

\* a count of tenths written with one decimal
Decimal1(t) == IntStr(t \div 10) \o "." \o IntStr(t % 10)

\* t tenths is x = count / total * 100 rounded to one decimal: nearest, and
\* the larger on a tie
RoundsTo(t, count, total) ==
  /\ 2 * (t * total - 1000 * count) <= total
  /\ 2 * (t * total - 1000 * count) > -total

\* C14: the video renderer shows fake_frames and real_frames as percentages
\* of total_frames_analyzed rounded to one decimal when the total is
\* positive (62 and 35 of 100 give 62.0% and 35.0%), and 0% for both when the
\* total is 0 or analysis is absent.
C14_FramePercentages ==
  (view # Null /\ isVideo) =>
     LET a == result[1].analysis
         v == view[1]
     IN  IF a # Null /\ a[1].total_frames_analyzed > 0
           THEN /\ \E t \in 0..1000 :
                     /\ RoundsTo(t, a[1].fake_frames, a[1].total_frames_analyzed)
                     /\ v.fakePercent = Decimal1(t) \o "%"
                /\ \E t \in 0..1000 :
                     /\ RoundsTo(t, a[1].real_frames, a[1].total_frames_analyzed)
                     /\ v.realPercent = Decimal1(t) \o "%"
                /\ (a[1].total_frames_analyzed = 100 /\ a[1].fake_frames = 62
                      /\ a[1].real_frames = 35) =>
                     v.fakePercent = "62.0%" /\ v.realPercent = "35.0%"
           ELSE v.fakePercent = "0%" /\ v.realPercent = "0%"

C14_Witness ==
  /\ view # Null
  /\ isVideo
  /\ result[1].analysis # Null
  /\ result[1].analysis[1].total_frames_analyzed = 100
  /\ result[1].analysis[1].uncertain_frames = 3
  /\ view[1].fakePercent = "62.0%"
  /\ view[1].realPercent = "35.0%"

\* C15: whenever result or error is set, it was written by the request
\* issued for the file that is selected now, and a result is rendered by the
\* renderer of the endpoint that produced it.
C15_ResultOfSelectedFile ==
  (result # Null \/ error # Null) =>
     /\ origin # Null
     /\ selectedFile # Null
     /\ origin[1].file = selectedFile[1].id
     /\ (origin[1].endpoint = "detect_video") <=> isVideo

\* C16: once several health checks were issued and all of them completed,
\* apiStatus is the status of the check issued last.
C16_NewestCheckWins ==
  (healthIssued > 1 /\ healthChecks = {}) =>
     /\ newestHealth # Null
     /\ apiStatus = checkHealthStatus(newestHealth[1])

\* C17: an analysis that was started finishes: loading, once set, is
\* cleared again with exactly one of result and error set.
C17_AnalysisFinishes ==
  loading ~> (~loading /\ requests = {} /\ ((result = Null) # (error = Null)))

C17_Witness ==
  /\ ~loading
  /\ issued = 2
  /\ requests = {}
  /\ result # Null
  /\ origin # Null
  /\ origin[1].endpoint = "detect_video"

\* C18: whenever a file is selected and no request is outstanding, a control
\* that runs handleRemove is enabled.
C18_RemoveAvailable ==
  (selectedFile # Null /\ requests = {}) => ENABLED (Remove \/ AnalyzeAnother)

====
